---- MODULE Spec2Model ----
(***************************************************************************)
(* Model of the LLM-powered ACP agent (src/llm_agent.py): the per-session  *)
(* conversation history store (add_to_conversation_history,                *)
(* get_conversation_messages) and the llm_assistant async generator, one   *)
(* action per stretch of code between two suspension points (yield/await). *)
(***************************************************************************)
EXTENDS Integers, Sequences, FiniteSets, TLC

(***************************************************************************)
(* Bounds of the model.                                                    *)
(***************************************************************************)
\* time.time() readings are 0..MaxClock
MaxClock == 1
\* a session's history is explored up to MAX_HISTORY_LENGTH + MaxExcess stored turns
MaxExcess == 1
\* a run's input holds at most this many messages
MaxBatch == 2

\* concurrent llm_assistant runs (tasks of the one event loop)
Runs == {1, 2}
\* session identifiers a Context can carry
Sessions == {"s1", "s2"}
\* values of the module-level MAX_HISTORY_LENGTH the model is run with
HistoryLengths == {1}
\* values of the module-level TOKEN that pass the import-time check
Tokens == {"ghp_x", " "}

None == "None"

(***************************************************************************)
(* Text helpers.  Failure messages are sequences of characters so that     *)
(* str.lower() and the `in` substring test are computed, not assumed.      *)
(***************************************************************************)
Min(a, b) == IF a <= b THEN a ELSE b
Max(a, b) == IF a >= b THEN a ELSE b

Uppercase == <<"A", "G", "H", "L", "R", "T">>
Lowercase == <<"a", "g", "h", "l", "r", "t">>

lowerChar(c) ==
    IF \E k \in 1..Len(Uppercase) : Uppercase[k] = c
    THEN Lowercase[CHOOSE k \in 1..Len(Uppercase) : Uppercase[k] = c]
    ELSE c

\* str.lower()
lower(s) == [k \in 1..Len(s) |-> lowerChar(s[k])]

\* needle in hay
In(needle, hay) ==
    \E k \in 0..(Len(hay) - Len(needle)) : SubSeq(hay, k + 1, k + Len(needle)) = needle

\* strip() == "" for the token values of the model
StripIsEmpty(t) == t \in {"", " "}

(***************************************************************************)
(* azure.ai.inference.models message objects                               *)
(***************************************************************************)
SystemMessage(content) == [role |-> "system", content |-> content]
UserMessage(content) == [role |-> "user", content |-> content]

SYSTEM_PROMPT == SystemMessage("You are an AI and Machine Learning specialist powered by GitHub AI.")

\* the first line of mock_content (line 222)
Marker == "[MOCK RESPONSE FOR EDUCATIONAL PURPOSES]"

mock_content == "[MOCK RESPONSE FOR EDUCATIONAL PURPOSES] This is a simulated response"

(***************************************************************************)
(* Inputs: acp_sdk Message = sequence of MessagePart                       *)
(***************************************************************************)
TextPart(c) == [content_type |-> "text/plain", content |-> c]
ImagePart == [content_type |-> "image/png", content |-> "iVBOR"]

InputMessages ==
    { <<ImagePart>>,                              \* no text/plain part
      <<TextPart("")>>,                           \* only an empty text part
      <<TextPart("hi")>>,
      <<TextPart("o"), ImagePart, TextPart("k")>> }

Batches == UNION { [1..n -> InputMessages] : n \in 0..MaxBatch }

\* the loop over message.parts (lines 150-153)
RECURSIVE message_content(_)
message_content(parts) ==
    IF parts = <<>> THEN ""
    ELSE LET rest == message_content(SubSeq(parts, 1, Len(parts) - 1))
             part == parts[Len(parts)]
         IN  IF part.content_type = "text/plain" THEN rest \o part.content ELSE rest

(***************************************************************************)
(* State                                                                   *)
(***************************************************************************)
VARIABLES
    MAX_HISTORY_LENGTH,          \* module constant (line 39), a configuration value
    USE_MOCK_WHEN_RATE_LIMITED,  \* module constant (line 24), a configuration value
    TOKEN,                       \* module constant (line 22)
    clock,                       \* the value time.time() returns next
    conversation_history,        \* dict: conversation id -> list of (timestamp, message, is_user)
    pc,                          \* where each run is suspended
    input,                       \* the run's input: list[Message]
    conversation_id,             \* local of the run
    idx,                         \* position of the for loop in input (0: before the first)
    messages,                    \* local of the run: the list passed to client.complete
    events,                      \* what the run has yielded so far
    outcome                      \* what client.complete did for the run's current message
                                 \* (NoCall: not called), kept for stating the claims

vars == <<MAX_HISTORY_LENGTH, USE_MOCK_WHEN_RATE_LIMITED, TOKEN, clock, conversation_history,
          pc, input, conversation_id, idx, messages, events, outcome>>

config == <<MAX_HISTORY_LENGTH, USE_MOCK_WHEN_RATE_LIMITED, TOKEN>>

(***************************************************************************)
(* Session history store (lines 41-96)                                     *)
(***************************************************************************)
\* a stored tuple (timestamp, message, is_user)
Turn(ts, message, is_user) == [ts |-> ts, msg |-> message, is_user |-> is_user]

\* isinstance(msg, SystemMessage) and not is_u   (lines 66, 70)
IsSystemTurn(t) == t.msg.role = "system" /\ ~t.is_user

InsertAt(s, k, x) == SubSeq(s, 1, k) \o <<x>> \o SubSeq(s, k + 1, Len(s))

\* list.sort(key=lambda x: x[0]): stable, ascending by timestamp
RECURSIVE SortAscending(_)
SortAscending(s) ==
    IF s = <<>> THEN <<>>
    ELSE LET front == SortAscending(SubSeq(s, 1, Len(s) - 1))
             x == s[Len(s)]
             k == Cardinality({j \in 1..Len(front) : front[j].ts <= x.ts})
         IN  InsertAt(front, k, x)

\* list.sort(key=lambda x: x[0], reverse=True): stable, descending by timestamp
RECURSIVE SortNewestFirst(_)
SortNewestFirst(s) ==
    IF s = <<>> THEN <<>>
    ELSE LET front == SortNewestFirst(SubSeq(s, 1, Len(s) - 1))
             x == s[Len(s)]
             k == Cardinality({j \in 1..Len(front) : front[j].ts >= x.ts})
         IN  InsertAt(front, k, x)

\* s[:n] with Python's meaning of a negative n
SlicePrefix(s, n) ==
    IF n >= 0 THEN SubSeq(s, 1, Min(n, Len(s)))
    ELSE SubSeq(s, 1, Max(0, Len(s) + n))

\* lines 65-66
system_messages(h) == SelectSeq(h, IsSystemTurn)

\* lines 69-76
IsRegularTurn(t) == ~IsSystemTurn(t)

\* regular_messages with the sort of line 73 ascending: the oldest turns are kept
regular_messages_OldestKept(h, maxlen) ==
    SlicePrefix(SortAscending(SelectSeq(h, IsRegularTurn)),
                maxlen - Len(SelectSeq(h, IsSystemTurn)))

regular_messages(h, maxlen) ==
    SlicePrefix(SortNewestFirst(SelectSeq(h, IsRegularTurn)),
                maxlen - Len(system_messages(h)))

\* LimitHistory evicting as soon as the list reaches maxlen
LimitHistory_AtLimit(h, maxlen) ==
    IF Len(h) >= maxlen
    THEN SortAscending(system_messages(h) \o regular_messages(h, maxlen - 1))
    ELSE h

\* LimitHistory keeping the last maxlen turns whatever their role
LimitHistory_Window(h, maxlen) ==
    IF Len(h) > maxlen THEN SubSeq(h, Len(h) - maxlen + 1, Len(h)) ELSE h

\* LimitHistory without the sort of line 80
LimitHistory_Unsorted(h, maxlen) ==
    IF Len(h) > maxlen THEN system_messages(h) \o regular_messages(h, maxlen) ELSE h

\* lines 63-80: the history list after the length limit is applied
LimitHistory(h, maxlen) ==
    IF Len(h) > maxlen
    THEN SortAscending(system_messages(h) \o regular_messages(h, maxlen))
    ELSE h

\* Appended storing user turns only
Appended_UserOnly(hist, cid, message, is_user, now) ==
    (IF cid \in DOMAIN hist THEN hist[cid] ELSE <<>>)
        \o (IF is_user THEN <<Turn(now, message, is_user)>> ELSE <<>>)

\* lines 55-60: the history list with the new tuple appended (created when missing)
Appended(hist, cid, message, is_user, now) ==
    (IF cid \in DOMAIN hist THEN hist[cid] ELSE <<>>) \o <<Turn(now, message, is_user)>>

\* add_to_conversation_history appending the tuple to the list of every session
add_to_conversation_history_Shared(hist, cid, message, is_user, now, maxlen) ==
    [c \in DOMAIN hist \cup {cid} |->
        LimitHistory(Appended(hist, c, message, is_user, now), maxlen)]

\* add_to_conversation_history: the dict after the call
add_to_conversation_history(hist, cid, message, is_user, now, maxlen) ==
    [c \in DOMAIN hist \cup {cid} |->
        IF c = cid THEN LimitHistory(Appended(hist, cid, message, is_user, now), maxlen)
        ELSE hist[c]]

\* get_conversation_messages (lines 82-96)
get_conversation_messages(hist, cid) ==
    IF cid \notin DOMAIN hist THEN <<>>
    ELSE [k \in 1..Len(hist[cid]) |-> hist[cid][k].msg]

\* the stored list of a session, empty when the id is unknown
History(cid) == IF cid \in DOMAIN conversation_history THEN conversation_history[cid] ELSE <<>>

(***************************************************************************)
(* The external completion call and its failures                           *)
(***************************************************************************)
\* an exception: str(e), and e.response.headers.get('Retry-After') when e has a response
Exc(msg, has_response, retry_after) ==
    [msg |-> msg, has_response |-> has_response, retry_after |-> retry_after]

Str429 == <<"4", "2", "9">>
StrRateLimit == <<"r", "a", "t", "e", " ", "l", "i", "m", "i", "t">>
StrTimeout == <<"t", "i", "m", "e", "o", "u", "t">>
StrToken == <<"t", "o", "k", "e", "n">>
StrAuthentication == <<"a", "u", "t", "h", "e", "n", "t", "i", "c", "a", "t", "i", "o", "n">>
StrAuth == <<"a", "u", "t", "h">>

\* ValueError("GitHub token is missing or empty") (line 191)
TokenError ==
    Exc(<<"G", "i", "t", "H", "u", "b", " ", "t", "o", "k", "e", "n", " ", "i", "s", " ",
          "m", "i", "s", "s", "i", "n", "g">>, FALSE, None)

\* failures client.complete raises in the model
Exceptions ==
    { Exc(<<"H", "T", "T", "P", " ", "4", "2", "9">>, TRUE, None),
      Exc(<<"4", "2", "9">>, TRUE, "30"),
      Exc(<<"R", "a", "t", "e", " ", "L", "i", "m", "i", "t">>, FALSE, None),
      Exc(<<"T", "i", "m", "e", "o", "u", "t">>, FALSE, None),
      Exc(<<"A", "u", "t", "h">>, TRUE, None),
      Exc(<<"b", "o", "o", "m">>, FALSE, None) }

\* texts a genuine completion returns (response.choices[0].message.content)
Completions == {"pong"}

\* what client.complete does: returns a response or raises
Outcomes == [raised : {FALSE}, content : Completions] \cup [raised : {TRUE}, exc : Exceptions]

\* "429" in error_str or "rate limit" in error_str   (lines 205, 266)
IsRateLimit(e) == In(Str429, lower(e.msg)) \/ In(StrRateLimit, lower(e.msg))

\* RetryAfter never reading the header
RetryAfter_Ignored(e) == None

\* lines 269-271
RetryAfter(e) == IF e.has_response THEN e.retry_after ELSE None

\* error_message testing for "timeout" before the rate-limit signals
error_message_TimeoutFirst(e) ==
    IF In(StrTimeout, lower(e.msg)) THEN
        <<"The request timed out. This might be due to high server load or network issues.">>
    ELSE IF IsRateLimit(e) THEN
        IF RetryAfter(e) \notin {None, ""}
        THEN <<"The GitHub AI API rate limit has been exceeded. Please try again in ",
               RetryAfter(e), " seconds.">>
        ELSE <<"The GitHub AI API rate limit has been exceeded. Please try again later.">>
    ELSE IF In(StrToken, lower(e.msg)) \/ In(StrAuthentication, lower(e.msg))
            \/ In(StrAuth, lower(e.msg)) THEN
        <<"There seems to be an authentication issue. Please check your GitHub token.">>
    ELSE <<"Error calling GitHub AI model: ", e.msg>>

\* the outer except block (lines 258-284): the text of the error message
error_message(e) ==
    IF IsRateLimit(e) THEN
        IF RetryAfter(e) \notin {None, ""}
        THEN <<"The GitHub AI API rate limit has been exceeded. Please try again in ",
               RetryAfter(e), " seconds.">>
        ELSE <<"The GitHub AI API rate limit has been exceeded. Please try again later.">>
    ELSE IF In(StrTimeout, lower(e.msg)) THEN
        <<"The request timed out. This might be due to high server load or network issues.">>
    ELSE IF In(StrToken, lower(e.msg)) \/ In(StrAuthentication, lower(e.msg))
            \/ In(StrAuth, lower(e.msg)) THEN
        <<"There seems to be an authentication issue. Please check your GitHub token.">>
    ELSE <<"Error calling GitHub AI model: ", e.msg>>

\* UsesMock ignoring USE_MOCK_WHEN_RATE_LIMITED
UsesMock_Always(e, use_mock) == IsRateLimit(e)

\* UsesMock testing for "429" only
UsesMock_Only429(e, use_mock) == use_mock /\ In(Str429, lower(e.msg))

\* the inner except block (lines 202-240): the mock response replaces a rate-limit failure
UsesMock(e, use_mock) == use_mock /\ IsRateLimit(e)

\* client.complete has not been called for the message
NoCall == [called |-> FALSE]

\* line 190: the token check fails and client.complete is not reached
TokenMissing(token) == token = "" \/ StripIsEmpty(token)

\* lines 189-256 / 258-295 for one outcome of the call: what the try statement ends in
Resolve(token, use_mock, o) ==
    IF TokenMissing(token) THEN [kind |-> "error", text |-> error_message(TokenError)]
    ELSE IF ~o.raised THEN [kind |-> "response", text |-> o.content]
    ELSE IF UsesMock(o.exc, use_mock) THEN [kind |-> "response", text |-> mock_content]
    ELSE [kind |-> "error", text |-> error_message(o.exc)]

(***************************************************************************)
(* Events a run yields.  msg is the position in input of the message the   *)
(* event was yielded for (0: before the loop).                             *)
(***************************************************************************)
Thought(m, text) == [kind |-> "thought", msg |-> m, text |-> text]
Terminal(m, res) == [kind |-> res.kind, msg |-> m, text |-> res.text]

(***************************************************************************)
(* Initial state: the module has been imported and no run has started.     *)
(* The three module-level settings are fixed for the life of the process.  *)
(***************************************************************************)
InitWith(lengths, mocks, tokens) ==
    /\ MAX_HISTORY_LENGTH \in lengths
    /\ USE_MOCK_WHEN_RATE_LIMITED \in mocks
    /\ TOKEN \in tokens
    /\ clock = 0
    /\ conversation_history = <<>>
    /\ pc = [r \in Runs |-> "idle"]
    /\ input = [r \in Runs |-> <<>>]
    /\ conversation_id = [r \in Runs |-> None]
    /\ idx = [r \in Runs |-> 0]
    /\ messages = [r \in Runs |-> <<>>]
    /\ events = [r \in Runs |-> <<>>]
    /\ outcome = [r \in Runs |-> NoCall]

(***************************************************************************)
(* llm_assistant (lines 99-295).  pc[r] is the suspension point of run r:  *)
(*   "idle"        no generator (not started, or finished)                 *)
(*   "loop"        at the yield of line 145                                *)
(*   "processing"  at the yield of line 167 or the sleep of line 168       *)
(*   "sending"     at the yield of line 187                                *)
(*   "yielded"     at the yield of line 256 or of line 295                 *)
(***************************************************************************)
\* The dispatcher calls llm_assistant(input, context) with a context that carries
\* session id sid.  Lines 111-145 read the context only: both thoughts are yielded
\* and conversation_id is set before the run first touches the history.
Start(r, sids, batches) ==
    /\ pc[r] = "idle"
    /\ \E sid \in sids, inp \in batches :
        /\ input' = [input EXCEPT ![r] = inp]
        /\ conversation_id' = [conversation_id EXCEPT ![r] = sid]
        /\ events' = [events EXCEPT ![r] =
                         <<Thought(0, "Context object attributes"),
                           Thought(0, <<"Using conversation ID: ", sid>>)>>]
    /\ idx' = [idx EXCEPT ![r] = 0]
    /\ messages' = [messages EXCEPT ![r] = <<>>]
    /\ pc' = [pc EXCEPT ![r] = "loop"]
    /\ UNCHANGED <<config, clock, conversation_history, outcome>>

\* NonEmptyAfter without the test of line 156: empty messages are processed too
NonEmptyAfter_NoSkip(inp, i) == (i + 1)..Len(inp)

\* positions after i of the messages the loop does not skip (line 156)
NonEmptyAfter(inp, i) == {j \in (i + 1)..Len(inp) : message_content(inp[j]) # ""}

\* NextNonEmpty jumping to the last message left
NextNonEmpty_Last(inp, i) ==
    CHOOSE k \in NonEmptyAfter(inp, i) : \A l \in NonEmptyAfter(inp, i) : k >= l

\* the position the loop stops at next
NextNonEmpty(inp, i) ==
    CHOOSE k \in NonEmptyAfter(inp, i) : \A l \in NonEmptyAfter(inp, i) : k <= l

\* lines 148-167: the loop skips empty messages; for the next non-empty one it stores
\* the user turn and yields the processing thought
NextMessage(r) ==
    /\ pc[r] \in {"loop", "yielded"}
    /\ NonEmptyAfter(input[r], idx[r]) # {}
    /\ LET j == NextNonEmpty(input[r], idx[r])
           cid == conversation_id[r]
       IN  /\ Len(History(cid)) < MAX_HISTORY_LENGTH + MaxExcess
           /\ idx' = [idx EXCEPT ![r] = j]
           /\ conversation_history' =
                  add_to_conversation_history(conversation_history, cid,
                      UserMessage(message_content(input[r][j])), TRUE, clock,
                      MAX_HISTORY_LENGTH)
           /\ events' = [events EXCEPT ![r] = Append(@, Thought(j, "Processing request"))]
    /\ pc' = [pc EXCEPT ![r] = "processing"]
    /\ outcome' = [outcome EXCEPT ![r] = NoCall]
    /\ UNCHANGED <<config, clock, input, conversation_id, messages>>

\* line 148 with no non-empty message left: the generator returns and its frame is gone
Finish(r) ==
    /\ pc[r] \in {"loop", "yielded"}
    /\ NonEmptyAfter(input[r], idx[r]) = {}
    /\ pc' = [pc EXCEPT ![r] = "idle"]
    /\ input' = [input EXCEPT ![r] = <<>>]
    /\ conversation_id' = [conversation_id EXCEPT ![r] = None]
    /\ idx' = [idx EXCEPT ![r] = 0]
    /\ messages' = [messages EXCEPT ![r] = <<>>]
    /\ events' = [events EXCEPT ![r] = <<>>]
    /\ outcome' = [outcome EXCEPT ![r] = NoCall]
    /\ UNCHANGED <<config, clock, conversation_history>>

\* lines 168-187: after the sleep the prompt is built, the system prompt followed by
\* the stored history, and the sending thought is yielded
BuildPrompt(r) ==
    /\ pc[r] = "processing"
    /\ LET prompt == <<SYSTEM_PROMPT>>
                     \o get_conversation_messages(conversation_history, conversation_id[r])
       IN  /\ messages' = [messages EXCEPT ![r] = prompt]
           /\ events' = [events EXCEPT ![r] =
                            Append(@, Thought(idx[r], <<"Sending messages: ", Len(prompt)>>))]
    /\ pc' = [pc EXCEPT ![r] = "sending"]
    /\ UNCHANGED <<config, clock, conversation_history, input, conversation_id, idx, outcome>>

\* CompleteWith storing a turn for the error message too
CompleteWith_StoresError(r, o) ==
    /\ pc[r] = "sending"
    /\ LET res == Resolve(TOKEN, USE_MOCK_WHEN_RATE_LIMITED, o)
           cid == conversation_id[r]
       IN  /\ Len(History(cid)) < MAX_HISTORY_LENGTH + MaxExcess
           /\ conversation_history' =
                  add_to_conversation_history(conversation_history, cid,
                      SystemMessage(res.text), FALSE, clock, MAX_HISTORY_LENGTH)
           /\ events' = [events EXCEPT ![r] = Append(@, Terminal(idx[r], res))]
    /\ messages' = [messages EXCEPT ![r] = <<>>]
    /\ outcome' = [outcome EXCEPT ![r] = IF TokenMissing(TOKEN) THEN NoCall ELSE o]
    /\ pc' = [pc EXCEPT ![r] = "yielded"]
    /\ UNCHANGED <<config, clock, input, conversation_id, idx>>

\* lines 189-295 with client.complete(messages) ending in outcome o: the reply is
\* stored and yielded, or the error message is yielded.  messages is not read again
\* before line 172 rebinds it.
CompleteWith(r, o) ==
    /\ pc[r] = "sending"
    /\ LET res == Resolve(TOKEN, USE_MOCK_WHEN_RATE_LIMITED, o)
           cid == conversation_id[r]
       IN  /\ IF res.kind = "response"
              THEN /\ Len(History(cid)) < MAX_HISTORY_LENGTH + MaxExcess
                   /\ conversation_history' =
                          add_to_conversation_history(conversation_history, cid,
                              SystemMessage(res.text), FALSE, clock, MAX_HISTORY_LENGTH)
              ELSE UNCHANGED conversation_history
           /\ events' = [events EXCEPT ![r] = Append(@, Terminal(idx[r], res))]
    /\ messages' = [messages EXCEPT ![r] = <<>>]
    /\ outcome' = [outcome EXCEPT ![r] = IF TokenMissing(TOKEN) THEN NoCall ELSE o]
    /\ pc' = [pc EXCEPT ![r] = "yielded"]
    /\ UNCHANGED <<config, clock, input, conversation_id, idx>>

Complete(r, outcomes) == \E o \in outcomes : CompleteWith(r, o)

\* the wall clock advances between two readings of time.time()
Tick ==
    /\ clock < MaxClock
    /\ clock' = clock + 1
    /\ UNCHANGED <<config, conversation_history, pc, input, conversation_id, idx,
                   messages, events, outcome>>

\* the runs of `runs`, started on the sessions and inputs given, the completion
\* service answering with one of `outcomes`
Pipeline(runs, sids, batches, outcomes) ==
    \/ \E r \in runs : Start(r, sids, batches)
    \/ \E r \in runs : NextMessage(r)
    \/ \E r \in runs : Finish(r)
    \/ \E r \in runs : BuildPrompt(r)
    \/ \E r \in runs : Complete(r, outcomes)
    \/ Tick

(***************************************************************************)
(* Specifications                                                          *)
(***************************************************************************)
\* One run at a time on session "s1" (a finished run may be followed by another),
\* every input of Batches, every outcome of the completion call.
Init == InitWith(HistoryLengths, BOOLEAN, Tokens)

Next == Pipeline({1}, {"s1"}, Batches, Outcomes)

Spec == Init /\ [][Next]_vars

\* Two runs interleaved at their suspension points, both on session "s1".
ConcurrentLengths == {1, 2}

ConcurrentBatches ==
    { <<>>, << <<TextPart("hi")>> >>, << <<TextPart("")>>, <<TextPart("bye")>> >> }

ConcurrentOutcomes ==
    { [raised |-> FALSE, content |-> "pong"],
      [raised |-> TRUE, exc |-> Exc(<<"b", "o", "o", "m">>, FALSE, None)] }

InitConcurrent == InitWith(ConcurrentLengths, {TRUE}, {"ghp_x"})

NextConcurrent == Pipeline(Runs, {"s1"}, ConcurrentBatches, ConcurrentOutcomes)

SpecConcurrent == InitConcurrent /\ [][NextConcurrent]_vars

\* The scenario of three user turns sent to session "s1" with a maximum of 3: one run
\* at a time, each input one of the three texts or all three in order.
ScenarioBatches ==
    { << <<TextPart("hi")>> >>, << <<TextPart("bye")>> >>, << <<TextPart("ok")>> >>,
      << <<TextPart("hi")>>, <<TextPart("bye")>>, <<TextPart("ok")>> >> }

InitScenario == InitWith({3}, {FALSE}, {"ghp_x"})

NextScenario == Pipeline({1}, {"s1"}, ScenarioBatches, ConcurrentOutcomes)

SpecScenario == InitScenario /\ [][NextScenario]_vars

\* Two runs interleaved at their suspension points on different sessions: run 1 on
\* "s1" sends "hi" and is answered "pong", run 2 on "s2" sends "bye" and is answered
\* "pang", so that the session a stored turn came from can be read off its text.
BatchesS1 == { << <<TextPart("hi")>> >>, << <<TextPart("hi")>>, <<TextPart("hi")>> >> }

BatchesS2 == { << <<TextPart("bye")>> >> }

OutcomesS1 ==
    { [raised |-> FALSE, content |-> "pong"],
      [raised |-> TRUE, exc |-> Exc(<<"b", "o", "o", "m">>, FALSE, None)] }

OutcomesS2 == { [raised |-> FALSE, content |-> "pang"] }

InitSessions == InitWith({1}, {FALSE}, {"ghp_x"})

NextSessions ==
    \/ Pipeline({1}, {"s1"}, BatchesS1, OutcomesS1)
    \/ Pipeline({2}, {"s2"}, BatchesS2, OutcomesS2)

SpecSessions == InitSessions /\ [][NextSessions]_vars

\* One run at a time on session "s1", the completion call failing in every way the
\* except block of lines 258-284 tells apart: messages with one signal, with several,
\* with none, in upper and lower case, with and without a response, the Retry-After
\* header present, empty or missing.
FailureExceptions ==
    { Exc(<<"4", "2", "9">>, TRUE, None),
      Exc(<<"4", "2", "9">>, TRUE, "30"),
      Exc(<<"4", "2", "9">>, TRUE, ""),
      Exc(<<"4", "2", "9">>, FALSE, None),
      Exc(<<"R", "a", "t", "e", " ", "L", "i", "m", "i", "t", " ", "t", "o", "k", "e", "n">>,
          FALSE, None),
      Exc(<<"4", "2", "9", " ", "T", "i", "m", "e", "o", "u", "t">>, TRUE, "30"),
      Exc(<<"T", "i", "m", "e", "o", "u", "t">>, TRUE, "30"),
      Exc(<<"T", "i", "m", "e", "o", "u", "t", " ", "A", "u", "t", "h">>, FALSE, None),
      Exc(<<"t", "o", "k", "e", "n">>, TRUE, "30"),
      Exc(<<"A", "u", "t", "h">>, FALSE, None),
      Exc(<<"b", "o", "o", "m">>, TRUE, "30"),
      Exc(<<"L", "A", "G">>, FALSE, None),
      Exc(<<>>, FALSE, None) }

FailureOutcomes ==
    [raised : {FALSE}, content : Completions] \cup [raised : {TRUE}, exc : FailureExceptions]

FailureBatches ==
    { << <<TextPart("hi")>> >>, << <<TextPart("hi")>>, <<TextPart("o"), TextPart("k")>> >> }

InitFailures == InitWith(HistoryLengths, BOOLEAN, Tokens)

NextFailures == Pipeline({1}, {"s1"}, FailureBatches, FailureOutcomes)

SpecFailures == InitFailures /\ [][NextFailures]_vars

\* One run at a time on session "s1" with the fallback on; the completion service
\* fails with a rate-limit signal or returns a text of its own choosing, which may
\* repeat what earlier prompts held (mock replies are stored and sent back to it).
LabelingCompletions == {"pong", "You were told: [MOCK RESPONSE FOR EDUCATIONAL PURPOSES]"}

LabelingOutcomes ==
    [raised : {FALSE}, content : LabelingCompletions]
        \cup {[raised |-> TRUE, exc |-> Exc(<<"4", "2", "9">>, TRUE, None)]}

InitLabeling == InitWith(HistoryLengths, {TRUE}, {"ghp_x"})

NextLabeling == Pipeline({1}, {"s1"}, FailureBatches, LabelingOutcomes)

SpecLabeling == InitLabeling /\ [][NextLabeling]_vars

(***************************************************************************)
(* Claims                                                                  *)
(***************************************************************************)
\* C1 (as claimed): for every session, get_conversation_messages returns at most
\* MAX_HISTORY_LENGTH turns after any sequence of add_to_conversation_history calls.
C1_RetentionBound ==
    \A cid \in Sessions :
        Len(get_conversation_messages(conversation_history, cid)) <= MAX_HISTORY_LENGTH

\* The step in which run r stores a user turn (line 161) or a reply (line 247), the
\* tuple it stores, and the list of line 60 before the length limit is applied.
StoresUserTurn(r) == pc[r] \in {"loop", "yielded"} /\ pc'[r] = "processing"

StoresReply(r) ==
    pc[r] = "sending" /\ pc'[r] = "yielded" /\ events'[r][Len(events'[r])].kind = "response"

StoredTurn(r) ==
    IF pc[r] = "sending"
    THEN Turn(clock, SystemMessage(events'[r][Len(events'[r])].text), FALSE)
    ELSE Turn(clock, UserMessage(message_content(input[r][idx'[r]])), TRUE)

BeforeLimit(r) == History(conversation_id[r]) \o <<StoredTurn(r)>>

AfterLimit(r) == conversation_history'[conversation_id[r]]

IsPrefix(s, t) == Len(s) <= Len(t) /\ SubSeq(t, 1, Len(s)) = s

Count(x, s) == Cardinality({k \in 1..Len(s) : s[k] = x})

SortedByTimestamp(h) == \A i, j \in 1..Len(h) : i < j => h[i].ts <= h[j].ts

\* C2: every system turn a session's history holds before an
\* add_to_conversation_history call is still there after it (the system turns before
\* the call are, in the same order, the first system turns after it), whether or not
\* the call evicts.
C2_SystemTurnsKept ==
    [][\A cid \in DOMAIN conversation_history :
          IsPrefix(system_messages(conversation_history[cid]),
                   system_messages(conversation_history'[cid]))]_vars

\* C2 witness: a run has just stored a user turn in a history that held
\* MAX_HISTORY_LENGTH >= 2 system turns; the call evicted, and the history is those
\* system turns.
C2_Witness ==
    \E r \in Runs :
        /\ pc[r] = "processing"
        /\ MAX_HISTORY_LENGTH >= 2
        /\ Len(History(conversation_id[r])) = MAX_HISTORY_LENGTH
        /\ \A k \in 1..Len(History(conversation_id[r])) :
               IsSystemTurn(History(conversation_id[r])[k])

\* C3: in every reachable state the turns get_conversation_messages returns are those
\* of the stored list in its order, and that order is non-decreasing in the stored
\* timestamps, before and after evictions.
C3_OrderPreserved ==
    \A cid \in Sessions :
        LET h == History(cid)
            m == get_conversation_messages(conversation_history, cid)
        IN  /\ Len(m) = Len(h)
            /\ \A k \in 1..Len(h) : m[k] = h[k].msg
            /\ SortedByTimestamp(h)

\* C3 witness: a history longer than MAX_HISTORY_LENGTH (the last call on it went
\* through the eviction branch and its sort) that holds different timestamps.
C3_Witness ==
    \E cid \in Sessions :
        /\ Len(History(cid)) > MAX_HISTORY_LENGTH
        /\ History(cid)[1].ts < History(cid)[Len(History(cid))].ts

\* C7: whenever a call makes the list longer than MAX_HISTORY_LENGTH, the user turns
\* kept are MAX_HISTORY_LENGTH minus the number of system turns many (none when the
\* system turns leave no room), they are among the user turns of the list, no kept
\* user turn is older than an evicted one, and the result is in timestamp order.
RecentKept(before, after, maxlen) ==
    LET users == SelectSeq(before, IsRegularTurn)
        kept == SelectSeq(after, IsRegularTurn)
        quota == maxlen - Len(system_messages(before))
        evicted == {users[k] : k \in {i \in 1..Len(users) : Count(users[i], users) > Count(users[i], kept)}}
    IN  /\ Len(kept) = Max(0, quota)
        /\ \A k \in 1..Len(kept) : Count(kept[k], kept) <= Count(kept[k], users)
        /\ \A e \in evicted : \A k \in 1..Len(kept) : kept[k].ts >= e.ts
        /\ SortedByTimestamp(after)

C7_RetentionRecency ==
    [][\A r \in Runs :
          (StoresUserTurn(r) \/ StoresReply(r)) /\ Len(BeforeLimit(r)) > MAX_HISTORY_LENGTH
          => RecentKept(BeforeLimit(r), AfterLimit(r), MAX_HISTORY_LENGTH)]_vars

\* C7 witness: two runs stored "hi" and, later by the clock, "bye" on one session
\* with MAX_HISTORY_LENGTH = 2; with the reply to "hi" the list exceeded the maximum,
\* the older user turn "hi" was evicted and the newer "bye" was kept.
C7_Witness ==
    \E r, q \in Runs :
        /\ r # q /\ conversation_id[r] = conversation_id[q]
        /\ pc[r] = "yielded" /\ pc[q] = "processing"
        /\ events[r][Len(events[r])].kind = "response"
        /\ LET h == History(conversation_id[r])
           IN  /\ Len(h) = 2
               /\ \E k \in 1..2 : h[k].msg = UserMessage("bye") /\ h[k].ts > 0
               /\ \E k \in 1..2 : IsSystemTurn(h[k])
               /\ message_content(input[r][idx[r]]) = "hi"

\* C4 (as claimed): while a run is between storing its user turn and the resolution
\* of its invocation, no other run of the same session appends to or reads the
\* session's history (every step that does ends at one of the three yields below).
InFlight(r) == pc[r] \in {"processing", "sending"}

C4_PerSessionSerialized ==
    [][\A r, q \in Runs :
          /\ r # q
          /\ InFlight(r)
          /\ conversation_id'[q] = conversation_id[r]
          /\ pc'[q] \in {"processing", "sending", "yielded"}
          => pc'[q] = pc[q]]_vars

\* positions in a run's events of its terminal events (response or error Message)
TerminalPositions(ev) == {k \in 1..Len(ev) : ev[k].kind \in {"response", "error"}}

\* input positions of the messages with non-empty plain-text content
NonEmptyPositions(inp) == {j \in 1..Len(inp) : message_content(inp[j]) # ""}

\* the run has passed message j: it is at or after j's terminal event
Resolved(r, j) == j < idx[r] \/ (j = idx[r] /\ pc[r] \in {"loop", "yielded"})

\* C5: in a run, the terminal events are, in order, those of the non-empty input
\* messages in input order, one each (all N of them once the batch is exhausted), and
\* each is preceded by a thought for the same message that comes after the previous
\* terminal event.
C5_EventOrdering ==
    \A r \in Runs :
        pc[r] # "idle" =>
            LET ev == events[r]
                T == TerminalPositions(ev)
                nonEmpty == NonEmptyPositions(input[r])
            IN  /\ \A j \in nonEmpty :
                       Cardinality({k \in T : ev[k].msg = j}) = (IF Resolved(r, j) THEN 1 ELSE 0)
                /\ \A k \in T : ev[k].msg \in nonEmpty
                /\ \A k, l \in T : k < l => ev[k].msg < ev[l].msg
                /\ \A k \in T : \E t \in 1..(k - 1) :
                       /\ ev[t].kind = "thought" /\ ev[t].msg = ev[k].msg
                       /\ \A l \in T : l < k => l < t
                /\ (pc[r] \in {"loop", "yielded"} /\ NonEmptyAfter(input[r], idx[r]) = {})
                       => Cardinality(T) = Cardinality(nonEmpty)

\* C5 witness: a run has emitted the terminal events of two non-empty messages.
C5_Witness ==
    \E r \in Runs :
        /\ pc[r] = "yielded"
        /\ Cardinality(NonEmptyPositions(input[r])) = 2
        /\ Cardinality(TerminalPositions(events[r])) = 2

LastEvent(ev) == ev[Len(ev)]

\* the run is at the yield that follows a completion call which raised
CallFailed(r) == pc[r] = "yielded" /\ outcome[r] # NoCall /\ outcome[r].raised

\* the terminal events the run has yielded for its current message
CurrentTerminals(r) == {k \in TerminalPositions(events[r]) : events[r][k].msg = idx[r]}

\* C6 (as claimed): every failure of the completion call ends in one terminal error
\* event for the message, the run not raising and going on with the batch, so that
\* every non-empty message the run has passed has its terminal event.
C6_FailureGivesErrorEvent ==
    \A r \in Runs :
        /\ outcome[r] # NoCall => pc[r] = "yielded"
        /\ \A j \in NonEmptyPositions(input[r]) :
               Resolved(r, j) => \E k \in TerminalPositions(events[r]) : events[r][k].msg = j
        /\ CallFailed(r) =>
              /\ Cardinality(CurrentTerminals(r)) = 1
              /\ LastEvent(events[r]).msg = idx[r]
              /\ LastEvent(events[r]).kind = "error"

\* C6 (amended): every failure of the completion call ends in exactly one terminal
\* event for the message, the run not raising (it is suspended at the yield of that
\* event, the rest of the batch still ahead); the event is an error event with a
\* non-empty text, except for a rate-limit failure with USE_MOCK_WHEN_RATE_LIMITED
\* set, where it is the response event of the mock reply.  Every non-empty message
\* the run has passed, whatever the outcome of its call, has its terminal event.
C6_FailureGivesTerminalEvent ==
    \A r \in Runs :
        /\ outcome[r] # NoCall => pc[r] = "yielded"
        /\ \A j \in NonEmptyPositions(input[r]) :
               Resolved(r, j) => \E k \in TerminalPositions(events[r]) : events[r][k].msg = j
        /\ CallFailed(r) =>
              /\ Cardinality(CurrentTerminals(r)) = 1
              /\ LastEvent(events[r]).msg = idx[r]
              /\ IF USE_MOCK_WHEN_RATE_LIMITED
                    /\ (In(Str429, lower(outcome[r].exc.msg))
                        \/ In(StrRateLimit, lower(outcome[r].exc.msg)))
                 THEN LastEvent(events[r]).kind = "response"
                        /\ LastEvent(events[r]).text = mock_content
                 ELSE LastEvent(events[r]).kind = "error"
                        /\ LastEvent(events[r]).text # <<>>

\* C6 witness: after the error event of its first message a run has gone on to its
\* second message and resolved it.
C6_Witness ==
    \E r \in Runs :
        /\ CallFailed(r)
        /\ \E k, l \in TerminalPositions(events[r]) :
               k < l /\ events[r][k].kind = "error" /\ events[r][l].msg > events[r][k].msg

\* C9: a message whose text/plain parts concatenate to "" gets no event, no user turn
\* and no completion call: every event of the loop belongs to a non-empty message,
\* the run has stored a user turn (with its processing thought) for exactly the
\* non-empty messages it has reached, the message the run is working on or calls the
\* completion for is non-empty, and no stored user turn has empty content.
C9_EmptyInputNoOp ==
    /\ \A r \in Runs :
          LET nonEmpty == NonEmptyPositions(input[r])
          IN  /\ \A k \in 1..Len(events[r]) :
                     events[r][k].msg # 0 => events[r][k].msg \in nonEmpty
              /\ {events[r][k].msg : k \in {t \in 1..Len(events[r]) :
                                               events[r][t].text = "Processing request"}}
                     = {j \in nonEmpty : j <= idx[r]}
              /\ pc[r] \in {"processing", "sending", "yielded"} => idx[r] \in nonEmpty
    /\ \A cid \in DOMAIN conversation_history :
          \A k \in 1..Len(conversation_history[cid]) :
              conversation_history[cid][k].is_user => conversation_history[cid][k].msg.content # ""

\* C9 witness: a run has gone past an empty first message (no text/plain part, or an
\* empty one) and has resolved the non-empty second one.
C9_Witness ==
    \E r \in Runs :
        /\ pc[r] = "yielded" /\ idx[r] = 2
        /\ message_content(input[r][1]) = ""
        /\ Len(events[r]) = 5

\* C10: when the completion call fails with a message that contains "429" or
\* "rate limit" (in any case) and USE_MOCK_WHEN_RATE_LIMITED is set, the terminal event
\* of the message is the response event carrying the placeholder text, never an error
\* event, and the newest system turn of the session's history holds the placeholder.
C10_RateLimitFallback ==
    \A r \in Runs :
        (/\ CallFailed(r) /\ USE_MOCK_WHEN_RATE_LIMITED
         /\ (In(Str429, lower(outcome[r].exc.msg)) \/ In(StrRateLimit, lower(outcome[r].exc.msg))))
        => /\ LastEvent(events[r]) = [kind |-> "response", msg |-> idx[r], text |-> mock_content]
           /\ \A k \in CurrentTerminals(r) : events[r][k].kind # "error"
           /\ LET sys == system_messages(History(conversation_id[r]))
              IN  sys # <<>> /\ sys[Len(sys)].msg = SystemMessage(mock_content)

\* C10 witness: with the fallback enabled a run has yielded the placeholder response
\* and the session's history holds the placeholder as a system turn.
C10_Witness ==
    \E r \in Runs :
        /\ USE_MOCK_WHEN_RATE_LIMITED
        /\ CallFailed(r)
        /\ LastEvent(events[r]).kind = "response"
        /\ LastEvent(events[r]).text = mock_content
        /\ \E k \in 1..Len(History(conversation_id[r])) :
               History(conversation_id[r])[k] = Turn(clock, SystemMessage(mock_content), FALSE)

\* the prompt built from a stored list: the system prompt, then the stored messages
PromptOf(h) == <<SYSTEM_PROMPT>> \o [k \in 1..Len(h) |-> h[k].msg]

Contents(h) == [k \in 1..Len(h) |-> h[k].msg.content]

\* C8 (as claimed): with a maximum of 3, sending "hi", "bye", "ok" to a fresh session
\* gives [sys, hi], then [sys, hi, bye], then, "hi" being evicted, [sys, bye, ok],
\* sys being the system prompt the prompt is built with.
C8_ScenarioAsClaimed ==
    [][\A r \in Runs :
          (StoresUserTurn(r) /\ MAX_HISTORY_LENGTH = 3) =>
              LET before == Contents(History(conversation_id[r]))
                  sent == StoredTurn(r).msg.content
                  after == PromptOf(AfterLimit(r))
              IN  /\ (before = <<>> /\ sent = "hi")
                         => after = <<SYSTEM_PROMPT, UserMessage("hi")>>
                  /\ (before = <<"hi">> /\ sent = "bye")
                         => after = <<SYSTEM_PROMPT, UserMessage("hi"), UserMessage("bye")>>
                  /\ (before = <<"hi", "bye">> /\ sent = "ok")
                         => after = <<SYSTEM_PROMPT, UserMessage("bye"), UserMessage("ok")>>]_vars

\* C8 (amended): with a maximum of 3, sending "hi", "bye", "ok" to a fresh session (no
\* reply stored) gives the stored histories [hi], [hi, bye], [hi, bye, ok]: the system
\* prompt is no stored turn and does not count, nothing is evicted, and the prompts
\* built are [sys, hi], [sys, hi, bye], [sys, hi, bye, ok].
C8_Scenario ==
    [][\A r \in Runs :
          (StoresUserTurn(r) /\ MAX_HISTORY_LENGTH = 3) =>
              LET before == Contents(History(conversation_id[r]))
                  sent == StoredTurn(r).msg.content
                  after == AfterLimit(r)
              IN  /\ (before = <<>> /\ sent = "hi")
                         => /\ Contents(after) = <<"hi">>
                            /\ PromptOf(after) = <<SYSTEM_PROMPT, UserMessage("hi")>>
                  /\ (before = <<"hi">> /\ sent = "bye")
                         => /\ Contents(after) = <<"hi", "bye">>
                            /\ PromptOf(after) =
                                   <<SYSTEM_PROMPT, UserMessage("hi"), UserMessage("bye")>>
                  /\ (before = <<"hi", "bye">> /\ sent = "ok")
                         => /\ Contents(after) = <<"hi", "bye", "ok">>
                            /\ PromptOf(after) =
                                   <<SYSTEM_PROMPT, UserMessage("hi"), UserMessage("bye"),
                                     UserMessage("ok")>>]_vars

\* C8 witness: the three user turns are stored and the run that sent "ok" has built
\* its prompt from them.
C8_Witness ==
    \E r \in Runs :
        /\ MAX_HISTORY_LENGTH = 3
        /\ pc[r] = "sending"
        /\ Contents(History("s1")) = <<"hi", "bye", "ok">>
        /\ messages[r] = <<SYSTEM_PROMPT, UserMessage("hi"), UserMessage("bye"), UserMessage("ok")>>

\* the step in which run r yields the error message of its current message (line 295)
YieldsError(r) ==
    pc[r] = "sending" /\ pc'[r] = "yielded" /\ LastEvent(events'[r]).kind = "error"

\* the failure of the scenario: "429" in the message, a response without Retry-After
Is429NoHeader(e) == In(Str429, lower(e.msg)) /\ RetryAfter(e) = None

\* C11: a message that ends in an error event leaves in the session history only its
\* user turn: the step that stores the user turn changes the history to what
\* add_to_conversation_history gives for that turn (eviction included), building the
\* prompt changes nothing, and the step that yields the error event appends no reply
\* and changes no history; when the call raised a "429" failure without Retry-After
\* and USE_MOCK_WHEN_RATE_LIMITED is off, that event is the error event with the
\* generic rate-limit text.
C11_NoReplyOnFailure ==
    [][\A r \in Runs :
          /\ StoresUserTurn(r) =>
                 conversation_history' =
                     [c \in DOMAIN conversation_history \cup {conversation_id[r]} |->
                         IF c = conversation_id[r]
                         THEN LimitHistory(BeforeLimit(r), MAX_HISTORY_LENGTH)
                         ELSE conversation_history[c]]
          /\ (pc[r] = "processing" /\ pc'[r] = "sending")
                 => conversation_history' = conversation_history
          /\ YieldsError(r) =>
                 /\ conversation_history' = conversation_history
                 /\ events'[r] = Append(events[r], LastEvent(events'[r]))
          /\ (/\ pc[r] = "sending" /\ pc'[r] = "yielded"
              /\ ~USE_MOCK_WHEN_RATE_LIMITED
              /\ outcome'[r] # NoCall /\ outcome'[r].raised /\ Is429NoHeader(outcome'[r].exc))
                 => /\ conversation_history' = conversation_history
                    /\ LastEvent(events'[r]) =
                           [kind |-> "error", msg |-> idx[r],
                            text |-> <<"The GitHub AI API rate limit has been exceeded. Please try again later.">>]]_vars

\* C11 witness: with the fallback off, the call for "hi" on a fresh session raised
\* "HTTP 429" without Retry-After; the run is at the yield of the generic rate-limit
\* error and the history holds the user turn "hi" alone.
C11_Witness ==
    \E r \in Runs :
        /\ ~USE_MOCK_WHEN_RATE_LIMITED
        /\ CallFailed(r) /\ Is429NoHeader(outcome[r].exc)
        /\ LastEvent(events[r]).kind = "error"
        /\ Contents(History(conversation_id[r])) = <<"hi">>
        /\ History(conversation_id[r])[1].is_user

\* C12 (as claimed): whenever a run is about to call client.complete (it is suspended
\* at the yield of line 187, the call of line 197 is its next step), the list it
\* passes is the system prompt followed by what get_conversation_messages returns for
\* its session at that moment, in the same order.
C12_PromptIsHistoryAtCall ==
    \A r \in Runs :
        pc[r] = "sending" =>
            messages[r] = <<SYSTEM_PROMPT>>
                          \o get_conversation_messages(conversation_history, conversation_id[r])

\* the session the step of run r works on (a run has no session before Start and
\* after Finish)
SessionOf(r) == IF conversation_id[r] # None THEN conversation_id[r] ELSE conversation_id'[r]

\* the texts sent to and returned for a session in SpecSessions
TextsOf(cid) == IF cid = "s1" THEN {"hi", "pong"} ELSE {"bye", "pang"}

\* every turn of the list has a text of session cid
OnlyTextsOf(cid, msgs) == \A k \in 1..Len(msgs) : msgs[k].content \in TextsOf(cid)

\* every stored list, and every prompt built and not yet sent, holds turns of its own
\* session only
SessionsApart ==
    /\ \A cid \in Sessions :
           OnlyTextsOf(cid, get_conversation_messages(conversation_history, cid))
    /\ \A r \in Runs :
           pc[r] = "sending" =>
               /\ messages[r][1] = SYSTEM_PROMPT
               /\ OnlyTextsOf(conversation_id[r], Tail(messages[r]))

\* C13: under every interleaving of runs on different sessions, a step of a run (an
\* append with the eviction it triggers included) leaves the stored list of every
\* session other than the run's own unchanged and creates no entry for another
\* session, and every stored list and every prompt to be sent holds only turns that
\* were appended to its own session.
C13_SessionIsolation ==
    [][/\ \A r \in Runs :
             pc'[r] # pc[r] =>
                 /\ \A c \in Sessions : c # SessionOf(r) => History(c)' = History(c)
                 /\ DOMAIN conversation_history'
                        \subseteq DOMAIN conversation_history \cup {SessionOf(r)}
       /\ SessionsApart']_vars

\* C13 witness: while run 2 is in flight on "s2", whose history holds its turn, the
\* user turn run 1 just stored on "s1" was evicted (the history of "s1" is the reply
\* to an earlier message alone).
C13_Witness ==
    /\ pc[1] = "processing" /\ conversation_id[1] = "s1"
    /\ pc[2] \in {"processing", "sending"} /\ conversation_id[2] = "s2"
    /\ Contents(History("s1")) = <<"pong">>
    /\ History("s2") # <<>>

\* the response events run r has yielded
ResponsePositions(r) == {k \in TerminalPositions(events[r]) : events[r][k].kind = "response"}

\* every response event a run has yielded has its text in a system turn of the
\* session's history, one system turn per response event at least
RepliesStored ==
    \A r \in Runs :
        LET sys == system_messages(History(conversation_id[r]))
        IN  /\ \A k \in ResponsePositions(r) :
                   \E j \in 1..Len(sys) : sys[j].msg = SystemMessage(events[r][k].text)
            /\ Len(sys) >= Cardinality(ResponsePositions(r))

\* C14: the step that yields the response event of a message (genuine completion or
\* mock reply) appends exactly one turn, the system turn SystemMessage(returned text)
\* with is_user False, as the newest system turn of the session, adds no other turn,
\* and the event carries that same text; so in every state in which a response event
\* has been yielded the history already holds its reply.
C14_ReplyStoredBeforeEvent ==
    [][/\ \A r \in Runs :
             StoresReply(r) =>
                 LET text == IF outcome'[r].raised THEN mock_content ELSE outcome'[r].content
                     before == History(conversation_id[r])
                     after == History(conversation_id[r])'
                 IN  /\ system_messages(after) =
                            Append(system_messages(before),
                                   Turn(clock, SystemMessage(text), FALSE))
                     /\ \A k \in 1..Len(after) :
                            IsRegularTurn(after[k]) => Count(after[k], after) <= Count(after[k], before)
                     /\ events'[r] = Append(events[r],
                                            [kind |-> "response", msg |-> idx[r], text |-> text])
       /\ RepliesStored']_vars

\* C14 witness: a run has yielded the response events of two messages, the first
\* answered by the model with "pong", the second by the mock reply, and the history
\* holds the two replies in that order.
C14_Witness ==
    \E r \in Runs :
        /\ pc[r] = "yielded"
        /\ Cardinality(ResponsePositions(r)) = 2
        /\ LastEvent(events[r]).text = mock_content
        /\ Contents(History(conversation_id[r])) = <<"pong", mock_content>>

\* the retry hint failure e carries: the Retry-After header of its response, when it
\* has a response and the header is there and not empty
Hint(e) == IF e.has_response /\ e.retry_after \notin {None, ""} THEN e.retry_after ELSE None

HasRateLimitSignal(e) == In(Str429, lower(e.msg)) \/ In(StrRateLimit, lower(e.msg))

RateLimitHintText(hint) ==
    <<"The GitHub AI API rate limit has been exceeded. Please try again in ", hint, " seconds.">>

RateLimitGenericText ==
    <<"The GitHub AI API rate limit has been exceeded. Please try again later.">>

TimeoutText ==
    <<"The request timed out. This might be due to high server load or network issues.">>

AuthText ==
    <<"There seems to be an authentication issue. Please check your GitHub token.">>

OtherText(e) == <<"Error calling GitHub AI model: ", e.msg>>

\* C15: when the call failed with a rate-limit signal and USE_MOCK_WHEN_RATE_LIMITED
\* is off, the terminal event is the error event whose text names the Retry-After
\* value when the failure carries one and is the generic "try again later" text when
\* it carries none; a failure without a rate-limit signal that carries a Retry-After
\* value gets the timeout, authentication or other-failure text, in which the value
\* has no place.
C15_RateLimitErrorText ==
    \A r \in Runs :
        CallFailed(r) =>
            LET e == outcome[r].exc
                ev == LastEvent(events[r])
            IN  /\ (HasRateLimitSignal(e) /\ ~USE_MOCK_WHEN_RATE_LIMITED) =>
                       /\ ev.kind = "error" /\ ev.msg = idx[r]
                       /\ ev.text = IF Hint(e) # None THEN RateLimitHintText(Hint(e))
                                    ELSE RateLimitGenericText
                /\ (~HasRateLimitSignal(e) /\ Hint(e) # None) =>
                       /\ ev.kind = "error"
                       /\ \/ ev.text = TimeoutText
                          \/ ev.text = AuthText
                          \/ ev.text = OtherText(e)

\* C15 witness: with the fallback off, the call raised "429 Timeout" with
\* Retry-After: 30 and the run is at the yield of the error event that names the 30
\* seconds.
C15_Witness ==
    \E r \in Runs :
        /\ ~USE_MOCK_WHEN_RATE_LIMITED
        /\ CallFailed(r)
        /\ In(StrTimeout, lower(outcome[r].exc.msg))
        /\ Hint(outcome[r].exc) = "30"
        /\ LastEvent(events[r]).text = RateLimitHintText("30")

\* C16 (as claimed): the response event of a message, and the reply stored for it,
\* contain the marker "[MOCK RESPONSE FOR EDUCATIONAL PURPOSES]" when the rate-limit
\* fallback produced them, and do not contain it when the completion call returned
\* them.
C16_FallbackLabeled ==
    \A r \in Runs :
        (pc[r] = "yielded" /\ outcome[r] # NoCall /\ LastEvent(events[r]).kind = "response") =>
            LET text == LastEvent(events[r]).text
                sys == system_messages(History(conversation_id[r]))
            IN  /\ sys # <<>> /\ sys[Len(sys)].msg.content = text
                /\ outcome[r].raised <=> In(Marker, text)

\* C17 (as claimed): the prompt a run is about to pass to client.complete for a
\* message holds that message's text as a user turn.
C17_UserTurnInPrompt ==
    \A r \in Runs :
        pc[r] = "sending" =>
            \E k \in 1..Len(messages[r]) :
                messages[r][k] = UserMessage(message_content(input[r][idx[r]]))

HasTimeoutSignal(e) == In(StrTimeout, lower(e.msg))

HasAuthSignal(e) ==
    In(StrToken, lower(e.msg)) \/ In(StrAuthentication, lower(e.msg)) \/ In(StrAuth, lower(e.msg))

\* the classes whose template the text of an error event for failure e is
ClassesOfText(e, text) ==
    {c \in {"rate-limit", "timeout", "authentication", "other"} :
        \/ c = "rate-limit" /\ (text = RateLimitGenericText
                                \/ (Hint(e) # None /\ text = RateLimitHintText(Hint(e))))
        \/ c = "timeout" /\ text = TimeoutText
        \/ c = "authentication" /\ text = AuthText
        \/ c = "other" /\ text = OtherText(e)}

\* C18: every failure that reaches the except block of lines 258-284 gets the text of
\* exactly one class, the first in the order rate-limit ("429" or "rate limit" in the
\* lower-cased message), timeout ("timeout"), authentication ("token",
\* "authentication" or "auth"), other, whose signal the message holds: a message with
\* several signals gets the earliest class and no fragment of another class's text.
\* The ValueError of the token check is classified the same way (authentication); a
\* rate-limit failure with USE_MOCK_WHEN_RATE_LIMITED on is answered by the mock
\* reply whatever other signals its message holds.
C18_FirstMatchClassification ==
    \A r \in Runs :
        /\ (pc[r] = "yielded" /\ TokenMissing(TOKEN)) =>
               LastEvent(events[r]) = [kind |-> "error", msg |-> idx[r], text |-> AuthText]
        /\ CallFailed(r) =>
               LET e == outcome[r].exc
                   ev == LastEvent(events[r])
               IN  IF HasRateLimitSignal(e) /\ USE_MOCK_WHEN_RATE_LIMITED
                   THEN ev.kind = "response"
                   ELSE /\ ev.kind = "error"
                        /\ Cardinality(ClassesOfText(e, ev.text)) = 1
                        /\ HasRateLimitSignal(e) => ClassesOfText(e, ev.text) = {"rate-limit"}
                        /\ (~HasRateLimitSignal(e) /\ HasTimeoutSignal(e))
                               => ClassesOfText(e, ev.text) = {"timeout"}
                        /\ (~HasRateLimitSignal(e) /\ ~HasTimeoutSignal(e) /\ HasAuthSignal(e))
                               => ClassesOfText(e, ev.text) = {"authentication"}
                        /\ (~HasRateLimitSignal(e) /\ ~HasTimeoutSignal(e) /\ ~HasAuthSignal(e))
                               => ClassesOfText(e, ev.text) = {"other"}

\* C18 witness: with the fallback off the call raised "429 Timeout", a message with
\* the rate-limit and the timeout signal, and the run is at the yield of a rate-limit
\* error text.
C18_Witness ==
    \E r \in Runs :
        /\ ~USE_MOCK_WHEN_RATE_LIMITED
        /\ CallFailed(r)
        /\ HasRateLimitSignal(outcome[r].exc) /\ HasTimeoutSignal(outcome[r].exc)
        /\ LastEvent(events[r]).kind = "error"
        /\ ClassesOfText(outcome[r].exc, LastEvent(events[r]).text) = {"rate-limit"}

====
